---- MODULE Spec2Model ----
(***************************************************************************)
(* A model of hors' answer pipeline: src/answer.rs (get_answers,           *)
(* get_detailed_answer, parse_answer, parse_answer_instruction,            *)
(* parse_answer_detailed, colorized_code, guess_syntax,                    *)
(* get_results_with_links_only, extract_question) and                      *)
(* src/engine/google.rs (extract_links).                                   *)
(*                                                                         *)
(* A string is a sequence of atoms (one-character strings, or a literal    *)
(* the code never looks inside); `+`, format! and push_str are \o.         *)
(* A parsed document is the sequence of its nodes in document order, each  *)
(* with the index of its parent (0: no parent in the model), as select's   *)
(* Document keeps them.                                                    *)
(***************************************************************************)
EXTENDS Integers, Sequences, FiniteSets, TLC

VARIABLES
    links,      \* get_answers' argument: the list of candidate links
    conf,       \* get_answers' argument: [option, numbers, colorize]
    pc,         \* the position of the running function
    results,    \* `results`, the blocks accumulated so far
    consumed,   \* how many links `links_iter` has yielded (get_detailed_answer)
    count,      \* how many iterations of `for _ in 0..conf.numbers()` have run
    index,      \* `index` of get_results_with_links_only
    iters,      \* how many iterations of its while loop have run
    ret,        \* what the call returned (or how it ended)
    fetched,    \* history: the links a page was requested for, in order
    fetch_log,  \* history: the outcome of each request ("Err", or the page)
    parsed,     \* history: the options parse_answer was invoked with
    page,       \* the document handed to parse_answer / extract_links
    tags,       \* the tag list handed to guess_syntax
    out         \* the value a function under test returned

vars == <<links, conf, pc, results, consumed, count, index, iters, ret,
          fetched, fetch_log, parsed, page, tags, out>>

----------------------------------------------------------------------------
(* Bounds of the model *)

\* the longest list of links get_answers is given
MaxLinks == 3
\* the largest requested count (conf.numbers())
MaxNumbers == 3
\* how many iterations of the links-only loop the model follows
MaxIters == 4
\* how many fragments are appended to a seed question page
MaxAdd == 2
\* the most nodes of a search-results page
MaxLinkNodes == 4
\* the longest tag list handed to guess_syntax
MaxTags == 3

----------------------------------------------------------------------------
(* Strings *)

Min(S) == CHOOSE x \in S : \A y \in S : x <= y
Max(S) == CHOOSE x \in S : \A y \in S : x >= y
MinOf(a, b) == IF a <= b THEN a ELSE b

\* Option<T>
None == [kind |-> "None"]
Some(v) == [kind |-> "Some", val |-> v]

\* str::contains
Contains(s, pat) ==
    \E i \in 1..(Len(s) - Len(pat) + 1) : SubSeq(s, i, i + Len(pat) - 1) = pat

\* the literal "question"
QUESTION == <<"q","u","e","s","t","i","o","n">>

\* the smallest index >= from of an atom of `set` in s, Len(s) + 1 if none
IndexOfAny(s, set, from) ==
    LET hits == {i \in from..Len(s) : s[i] \in set}
    IN  IF hits = {} THEN Len(s) + 1 ELSE Min(hits)

\* str::split on a one-character separator: the pieces, in order
RECURSIVE Split(_, _)
Split(s, sep) ==
    LET k == IndexOfAny(s, {sep}, 1)
    IN  IF k > Len(s) THEN <<s>>
        ELSE <<SubSeq(s, 1, k - 1)>> \o Split(SubSeq(s, k + 1, Len(s)), sep)

\* str::replace of a one-character pattern by one character
Replace(s, from, to) == [i \in 1..Len(s) |-> IF s[i] = from THEN to ELSE s[i]]

\* [String]::join
RECURSIVE Join(_, _)
Join(blocks, sep) ==
    IF Len(blocks) = 0 THEN <<>>
    ELSE IF Len(blocks) = 1 THEN blocks[1]
    ELSE blocks[1] \o sep \o Join(Tail(blocks), sep)

SPLITTER == <<"\n^_^ ==================================================== ^_^\n\n">>

----------------------------------------------------------------------------
(* Url::parse and Url::path (the url crate), as far as the links of the    *)
(* model exercise them: a link with no scheme is a relative URL and does   *)
(* not parse; the path runs from the end of the authority to the first     *)
(* '?' or '#', and is "/" when empty.                                      *)

SchemeChars == {"h", "t", "p", "s"}

UrlParse(link) ==
    LET colon  == IndexOfAny(link, {":"}, 1)
        scheme == SubSeq(link, 1, colon - 1)
        isAbs  == /\ colon <= Len(link)
                  /\ colon > 1
                  /\ \A i \in 1..Len(scheme) : scheme[i] \in SchemeChars
        \* a special scheme: the slashes after the colon are skipped
        nonSlash == {i \in (colon + 1)..Len(link) : link[i] # "/"}
        hostAt == IF nonSlash = {} THEN Len(link) + 1 ELSE Min(nonSlash)
        hostEnd == IndexOfAny(link, {"/", "?", "#"}, hostAt)
        pathEnd == IndexOfAny(link, {"?", "#"}, hostEnd)
        rawPath == SubSeq(link, hostEnd, pathEnd - 1)
    IN  IF ~isAbs \/ hostAt > Len(link) \/ hostEnd = hostAt
        THEN [ok |-> FALSE, path |-> <<>>]
        ELSE [ok |-> TRUE, path |-> IF rawPath = <<>> THEN <<"/">> ELSE rawPath]

\* answer.rs, extract_question
extract_question(path) ==
    LET splitted == Split(path, "/")
    IN  Replace(splitted[Len(splitted)], "-", " ")

----------------------------------------------------------------------------
(* Documents (select::document::Document).  doc[i] is the i-th node in     *)
(* document order:                                                         *)
(*   parent : the index of its parent, 0 for a node at the top             *)
(*   name   : the element's name; "" for a text node (Node::name is None)  *)
(*   cls    : the classes of its class attribute                           *)
(*   text   : a text node's own text                                       *)
(*   href   : the href attribute, <<>> when absent, <<value>> when present *)

Element(parent, name, cls) ==
    [parent |-> parent, name |-> name, cls |-> cls, text |-> <<>>, href |-> <<>>]
Anchor(parent, cls, href) ==
    [parent |-> parent, name |-> "a", cls |-> cls, text |-> <<>>, href |-> href]
TextNode(parent, text) ==
    [parent |-> parent, name |-> "", cls |-> {}, text |-> text, href |-> <<>>]

\* a is a proper ancestor of j (Node::parent, repeated)
RECURSIVE IsAncestor(_, _, _)
IsAncestor(doc, a, j) ==
    /\ j # 0
    /\ \/ doc[j].parent = a
       \/ IsAncestor(doc, a, doc[j].parent)

\* Node::descendants, Node::children: in document order, by increasing index
Descendants(doc, i) == {j \in (i + 1)..Len(doc) : IsAncestor(doc, i, j)}
Children(doc, i) == {j \in (i + 1)..Len(doc) : doc[j].parent = i}
AllNodes(doc) == 1..Len(doc)

\* predicates Class(c) and Name(n)
HasClass(doc, i, c) == c \in doc[i].cls
HasName(doc, i, n) == doc[i].name = n

\* the indices of a set, in increasing order
RECURSIVE InOrder(_)
InOrder(S) == IF S = {} THEN <<>> ELSE <<Min(S)>> \o InOrder(S \ {Min(S)})

\* Node::text: the text of the node's text descendants, in document order
RECURSIVE ConcatText(_, _)
ConcatText(doc, order) ==
    IF order = <<>> THEN <<>>
    ELSE doc[order[1]].text \o ConcatText(doc, Tail(order))
NodeText(doc, i) ==
    IF doc[i].name = "" THEN doc[i].text
    ELSE ConcatText(doc, InOrder(Descendants(doc, i)))

\* Iterator::next of a find: the first match, 0 for None
First(S) == IF S = {} THEN 0 ELSE Min(S)

----------------------------------------------------------------------------
(* syntect: the default syntax set, as far as the tags of the model probe  *)
(* it.  find_syntax_by_token looks for a syntax with that file extension,  *)
(* then for one with that name, ignoring ASCII case.                       *)

PlainText == "Plain Text"
SyntaxSet ==
    << [name |-> PlainText, exts |-> {"txt"}],
       [name |-> "Python", exts |-> {"py", "py3", "pyw"}],
       [name |-> "Rust", exts |-> {"rs"}] >>

AsciiLower(a) ==
    CASE a = "Rust" -> "rust"
      [] a = "RUST" -> "rust"
      [] a = "Python" -> "python"
      [] a = "Plain Text" -> "plain text"
      [] OTHER -> a

\* a tag is a text; only a text of one atom can equal a token of the set
find_syntax_by_token(tag) ==
    LET byExt  == {k \in 1..Len(SyntaxSet) :
                      Len(tag) = 1 /\ tag[1] \in SyntaxSet[k].exts}
        byName == {k \in 1..Len(SyntaxSet) :
                      Len(tag) = 1
                      /\ AsciiLower(SyntaxSet[k].name) = AsciiLower(tag[1])}
    IN  IF byExt # {} THEN Some(SyntaxSet[Max(byExt)].name)
        ELSE IF byName # {} THEN Some(SyntaxSet[Max(byName)].name)
        ELSE None

\* answer.rs, guess_syntax: a mutant that lets the last resolving tag win
RECURSIVE guess_syntax_last(_)
guess_syntax_last(possible_tags) ==
    IF possible_tags = <<>> THEN PlainText
    ELSE LET rest == guess_syntax_last(Tail(possible_tags))
             syntax == find_syntax_by_token(possible_tags[1])
         IN  IF rest # PlainText \/ syntax.kind = "None" THEN rest
             ELSE syntax.val

\* answer.rs, guess_syntax
RECURSIVE guess_syntax_loop(_)
guess_syntax_loop(possible_tags) ==
    IF possible_tags = <<>> THEN PlainText
    ELSE LET syntax == find_syntax_by_token(possible_tags[1])
         IN  IF syntax.kind = "Some" THEN syntax.val
             ELSE guess_syntax_loop(Tail(possible_tags))

guess_syntax(possible_tags) == guess_syntax_loop(possible_tags)

\* syntect::util::LinesWithEndings: the lines, each with its "\n"
RECURSIVE LinesWithEndings(_)
LinesWithEndings(code) ==
    LET k == IndexOfAny(code, {"\n"}, 1)
    IN  IF code = <<>> THEN <<>>
        ELSE IF k > Len(code) THEN <<code>>
        ELSE <<SubSeq(code, 1, k)>> \o LinesWithEndings(SubSeq(code, k + 1, Len(code)))

\* as_24_bit_terminal_escaped(h.highlight(line), false): the line behind the
\* colour escape of the syntax's style (one styled span a line in the model)
Escaped(syntax, line) == <<"\\x1b[38;2;" \o syntax \o "m">> \o line

\* answer.rs, colorized_code
RECURSIVE colorized_lines(_, _)
colorized_lines(syntax, lines) ==
    IF lines = <<>> THEN <<>>
    ELSE Escaped(syntax, lines[1]) \o colorized_lines(syntax, Tail(lines))

colorized_code(code, possible_tags) ==
    colorized_lines(guess_syntax(possible_tags), LinesWithEndings(code))

----------------------------------------------------------------------------
(* answer.rs: parse_answer and its two extractors.  A result is None,      *)
(* Some(text), or Panic (the panic! of parse_answer's last match arm).     *)

Panic == [kind |-> "Panic"]

\* the options of config::OutputOption
OutputOption == {"Links", "OnlyCode", "All"}

parse_answer_instruction(doc, answer_node, question_tags, should_colorize) ==
    LET title == First({j \in Descendants(doc, answer_node) : HasName(doc, j, "pre")})
        code_instruction ==
            First({j \in Descendants(doc, answer_node) : HasName(doc, j, "code")})
    IN  IF title # 0 THEN
            IF should_colorize
            THEN Some(colorized_code(NodeText(doc, title), question_tags))
            ELSE Some(NodeText(doc, title))
        ELSE IF code_instruction # 0 THEN
            IF should_colorize
            THEN Some(colorized_code(NodeText(doc, code_instruction), question_tags))
            ELSE Some(NodeText(doc, code_instruction))
        ELSE None

\* the loop over instruction.children() of parse_answer_detailed
RECURSIVE formatted_answer(_, _, _)
formatted_answer(doc, children, question_tags) ==
    IF children = <<>> THEN <<>>
    ELSE LET sub_node == children[1]
             piece ==
                 CASE doc[sub_node].name = "pre" ->
                        colorized_code(NodeText(doc, sub_node), question_tags) \o <<"\n">>
                   [] doc[sub_node].name = "code" ->
                        colorized_code(NodeText(doc, sub_node), question_tags)
                   [] doc[sub_node].name = "" -> <<>>
                   [] OTHER -> NodeText(doc, sub_node) \o <<"\n\n">>
         IN  piece \o formatted_answer(doc, Tail(children), question_tags)

\* a mutant of parse_answer_detailed: the colorized walk flattens the text
parse_answer_detailed_flat(doc, answer_node, question_tags, should_colorize) ==
    LET instruction ==
            First({j \in Descendants(doc, answer_node) : HasClass(doc, j, "post-text")})
    IN  IF instruction # 0 THEN Some(NodeText(doc, instruction)) ELSE None

parse_answer_detailed(doc, answer_node, question_tags, should_colorize) ==
    LET instruction ==
            First({j \in Descendants(doc, answer_node) : HasClass(doc, j, "post-text")})
    IN  IF instruction # 0 THEN
            IF should_colorize = FALSE
            THEN Some(NodeText(doc, instruction))
            ELSE Some(formatted_answer(doc, InOrder(Children(doc, instruction)),
                                       question_tags))
        ELSE None

\* the tags of the page: the text of every "post-tag" element, in order
QuestionTags(doc) ==
    LET order == InOrder({j \in AllNodes(doc) : HasClass(doc, j, "post-tag")})
    IN  [k \in 1..Len(order) |-> NodeText(doc, order[k])]

\* a mutant of parse_answer: the option is matched before the answer is looked for
parse_answer_match_first(doc, option, colorize) ==
    LET answer == First({j \in AllNodes(doc) : HasClass(doc, j, "answer")})
    IN  CASE option = "OnlyCode" ->
               IF answer = 0 THEN None
               ELSE parse_answer_instruction(doc, answer, QuestionTags(doc), colorize)
          [] option = "All" ->
               IF answer = 0 THEN None
               ELSE parse_answer_detailed(doc, answer, QuestionTags(doc), colorize)
          [] OTHER -> Panic

parse_answer(doc, option, colorize) ==
    LET question_tags == QuestionTags(doc)
        answer == First({j \in AllNodes(doc) : HasClass(doc, j, "answer")})
    IN  IF answer # 0 THEN
            CASE option = "OnlyCode" ->
                   parse_answer_instruction(doc, answer, question_tags, colorize)
              [] option = "All" ->
                   parse_answer_detailed(doc, answer, question_tags, colorize)
              [] OTHER -> Panic
        ELSE None

\* get_detailed_answer, lines 43-48: the block of one fetched link
AnswerBlock(link, answer) ==
    IF answer.kind = "Some"
    THEN <<"- Answer from ">> \o link \o <<"\n">> \o answer.val
    ELSE <<"Can't get answer from ">> \o link

----------------------------------------------------------------------------
(* engine/google.rs, extract_links *)

\* Class("r").descendant(Name("a"))
IsResultAnchor(doc, j) ==
    /\ HasName(doc, j, "a")
    /\ \E a \in AllNodes(doc) : IsAncestor(doc, a, j) /\ HasClass(doc, a, "r")

RECURSIVE collect_links(_, _)
collect_links(doc, order) ==
    IF order = <<>> THEN <<>>
    ELSE doc[order[1]].href \o collect_links(doc, Tail(order))

\* a mutant: the empty list is returned as Some
extract_links_some_empty(doc) ==
    Some(collect_links(doc, InOrder({j \in AllNodes(doc) : IsResultAnchor(doc, j)})))

extract_links(doc) ==
    LET found == collect_links(doc, InOrder({j \in AllNodes(doc) : IsResultAnchor(doc, j)}))
    IN  IF Len(found) = 0 THEN None ELSE Some(found)

----------------------------------------------------------------------------
(* The inputs of the model *)

\* "http://s/questions/1/a-b"
LinkQuestionA ==
    <<"h","t","t","p",":","/","/","s","/","q","u","e","s","t","i","o","n","s","/","1","/","a","-","b">>
\* "http://s/tags/r"
LinkTags ==
    <<"h","t","t","p",":","/","/","s","/","t","a","g","s","/","r">>
\* "http://s/questions/2/c-d?e-f"
LinkQuestionC ==
    <<"h","t","t","p",":","/","/","s","/","q","u","e","s","t","i","o","n","s","/","2","/","c","-","d","?","e","-","f">>
\* "/url?q=questions/3", a relative link
LinkRelative ==
    <<"/","u","r","l","?","q","=","q","u","e","s","t","i","o","n","s","/","3">>

LinkPool == {LinkQuestionA, LinkTags, LinkQuestionC, LinkRelative}

\* all sequences over S of length at most n
SeqsUpTo(S, n) == UNION {[1..k -> S] : k \in 0..n}

\* a page with a code block and no answer
PageNoAnswer ==
    << Element(0, "div", {"question"}),
       Element(1, "pre", {}),
       TextNode(2, <<"q">>) >>
\* an answer with neither code nor post-text
PageBareAnswer ==
    << Element(0, "div", {"answer"}),
       TextNode(1, <<"w">>) >>
\* a tagged question, and an answer of a paragraph, a code block, a paragraph
PageAnswer ==
    << Element(0, "a", {"post-tag"}),
       TextNode(1, <<"rust">>),
       Element(0, "div", {"answer"}),
       Element(3, "div", {"post-text"}),
       Element(4, "p", {}),
       TextNode(5, <<"p1">>),
       Element(4, "pre", {}),
       TextNode(7, <<"fn", "\n", "x">>),
       Element(4, "p", {}),
       TextNode(9, <<"p2">>) >>

PagePool == {PageNoAnswer, PageBareAnswer, PageAnswer}

----------------------------------------------------------------------------
(* answer.rs: get_answers, get_detailed_answer, get_results_with_links_only *)

Ok(v) == [kind |-> "Ok", val |-> v]
Err == [kind |-> "Err"]
Running == [kind |-> "Running"]
\* a panic, and the function it was raised in
Panicked(where) == [kind |-> "Panic", where |-> where]

\* what `client.get(link)...send()?.text()?` can give: a transport error, or
\* the text of a page; a link that is no URL gives the error only
FetchOutcomes(link) ==
    {[ok |-> FALSE, page |-> <<>>]}
    \cup (IF UrlParse(link).ok THEN {[ok |-> TRUE, page |-> p] : p \in PagePool}
          ELSE {})

\* a mutant of the filter: every link passes
IsQuestionLinkAlways(link) == TRUE

\* link.contains("question"), lines 35 and 202
IsQuestionLink(link) == Contains(link, QUESTION)

OrchInit ==
    /\ links \in SeqsUpTo(LinkPool, MaxLinks)
    /\ conf \in [option : OutputOption, numbers : 0..MaxNumbers, colorize : BOOLEAN]
    /\ pc = "start"
    /\ results = <<>>
    /\ consumed = 0
    /\ count = 0
    /\ index = 0
    /\ iters = 0
    /\ ret = Running
    /\ fetched = <<>>
    /\ fetch_log = <<>>
    /\ parsed = <<>>

\* a mutant of get_answers: every option is routed to get_detailed_answer
get_answers_always_detailed ==
    /\ pc = "start"
    /\ pc' = "detailed_client"
    /\ UNCHANGED <<links, conf, results, consumed, count, index, iters, ret,
                   fetched, fetch_log, parsed, page, tags, out>>

\* get_answers, lines 15-22
get_answers ==
    /\ pc = "start"
    /\ pc' = IF conf.option = "Links" THEN "links_loop" ELSE "detailed_client"
    /\ UNCHANGED <<links, conf, results, consumed, count, index, iters, ret,
                   fetched, fetch_log, parsed, page, tags, out>>

\* get_detailed_answer, lines 26-29: `ClientBuilder::build()?`
detailed_build_client ==
    /\ pc = "detailed_client"
    /\ \E built \in BOOLEAN :
          IF built THEN pc' = "detailed_loop" /\ ret' = ret
          ELSE pc' = "done" /\ ret' = Err
    /\ UNCHANGED <<links, conf, results, consumed, count, index, iters,
                   fetched, fetch_log, parsed, page, tags, out>>

\* get_detailed_answer, lines 38-48: fetch the page of `link`, parse it, push a block
fetch_and_parse(link) ==
    \E got \in FetchOutcomes(link) :
       /\ fetched' = Append(fetched, link)
       /\ fetch_log' = Append(fetch_log, got)
       /\ IF ~got.ok
          THEN \* `?`: the error is returned
               /\ ret' = Err
               /\ pc' = "done"
               /\ UNCHANGED <<results, parsed>>
          ELSE LET answer == parse_answer(got.page, conf.option, conf.colorize)
               IN  /\ parsed' = Append(parsed, conf.option)
                   /\ IF answer.kind = "Panic"
                      THEN /\ ret' = Panicked("parse_answer")
                           /\ pc' = "done"
                           /\ UNCHANGED results
                      ELSE /\ results' = Append(results, AnswerBlock(link, answer))
                           /\ UNCHANGED <<ret, pc>>

\* a mutant of the loop: a link that is skipped does not use up an iteration
detailed_iteration_free_skip ==
    /\ pc = "detailed_loop"
    /\ count < conf.numbers
    /\ IF consumed < Len(links)
       THEN LET link == links[consumed + 1]
            IN  /\ consumed' = consumed + 1
                /\ IF ~IsQuestionLink(link)
                   THEN UNCHANGED <<count, results, ret, pc, fetched, fetch_log, parsed>>
                   ELSE count' = count + 1 /\ fetch_and_parse(link)
       ELSE /\ pc' = "detailed_return"
            /\ count' = count + 1
            /\ UNCHANGED <<consumed, results, ret, fetched, fetch_log, parsed>>
    /\ UNCHANGED <<links, conf, index, iters, page, tags, out>>

\* get_detailed_answer, lines 31-52: one iteration of `for _ in 0..conf.numbers()`
detailed_iteration ==
    /\ pc = "detailed_loop"
    /\ count < conf.numbers
    /\ count' = count + 1
    /\ IF consumed < Len(links)
       THEN \* Some(link)
            LET link == links[consumed + 1]
            IN  /\ consumed' = consumed + 1
                /\ IF ~IsQuestionLink(link)
                   THEN \* continue
                        UNCHANGED <<results, ret, pc, fetched, fetch_log, parsed>>
                   ELSE fetch_and_parse(link)
       ELSE \* None => break
            /\ pc' = "detailed_return"
            /\ UNCHANGED <<consumed, results, ret, fetched, fetch_log, parsed>>
    /\ UNCHANGED <<links, conf, index, iters, page, tags, out>>

\* get_detailed_answer, line 53, after the loop has ended
detailed_return ==
    /\ \/ pc = "detailed_return"
       \/ pc = "detailed_loop" /\ count >= conf.numbers
    /\ ret' = Ok(Join(results, SPLITTER))
    /\ pc' = "done"
    /\ UNCHANGED <<links, conf, results, consumed, count, index, iters,
                   fetched, fetch_log, parsed, page, tags, out>>

\* the condition of the while loop, line 200
links_guard == index < Len(links) /\ index < conf.numbers

\* the block of one link, line 208
LinkBlock(link, url) ==
    <<"Title - ">> \o extract_question(url.path) \o <<"\n">> \o link

\* get_results_with_links_only, lines 200-211: one iteration of the while loop
\* (the model follows at most MaxIters of them)
links_iteration ==
    /\ pc = "links_loop"
    /\ links_guard
    /\ iters < MaxIters
    /\ iters' = iters + 1
    /\ LET link == links[index + 1]
           url == UrlParse(link)
       IN  IF ~IsQuestionLink(link)
           THEN \* continue, with index as it was
                UNCHANGED <<results, index, ret, pc>>
           ELSE IF ~url.ok
           THEN \* expect("Parse url failed, ...")
                /\ ret' = Panicked("get_results_with_links_only")
                /\ pc' = "done"
                /\ UNCHANGED <<results, index>>
           ELSE /\ results' = Append(results, LinkBlock(link, url))
                /\ index' = index + 1
                /\ UNCHANGED <<ret, pc>>
    /\ UNCHANGED <<links, conf, consumed, count, fetched, fetch_log, parsed,
                   page, tags, out>>

\* get_results_with_links_only, line 212 (and get_answers' Ok, line 18)
links_return ==
    /\ pc = "links_loop"
    /\ ~links_guard
    /\ ret' = Ok(Join(results, SPLITTER))
    /\ pc' = "done"
    /\ UNCHANGED <<links, conf, results, consumed, count, index, iters,
                   fetched, fetch_log, parsed, page, tags, out>>

Init ==
    /\ OrchInit
    /\ page = <<>>
    /\ tags = <<>>
    /\ out = None

Next ==
    \/ get_answers
    \/ detailed_build_client
    \/ detailed_iteration
    \/ detailed_return
    \/ links_iteration
    \/ links_return

Spec == Init /\ [][Next]_vars

----------------------------------------------------------------------------
(* Properties of the orchestrator, checked under Spec *)

\* the positions of the links that contain "question"
QuestionPositions(ls) == {i \in 1..Len(ls) : Contains(ls[i], QUESTION)}
\* the positions the detailed loop can reach: the first min(N, len(links))
FirstN == 1..MinOf(conf.numbers, Len(links))
\* the question links among them, in list order
QuestionsInFirstN == InOrder({i \in FirstN : Contains(links[i], QUESTION)})
AllFetchesOk == \A k \in 1..Len(fetch_log) : fetch_log[k].ok
\* an Err with no failed fetch is the client builder's
ClientBuilt == ~(ret.kind = "Err" /\ AllFetchesOk)
AllLinksParse == \A i \in 1..Len(links) : UrlParse(links[i]).ok
Detailed == conf.option # "Links"

\* C1: on either path, at every point of the loop and at return, `results`
\* holds at most min(N, number of links containing "question") blocks.
C1_BlocksBounded ==
    Len(results) <= MinOf(conf.numbers, Cardinality(QuestionPositions(links)))

\* two blocks out of three links, one of which is no question link: the bound is met
C1_Witness ==
    /\ pc = "done" /\ ret.kind = "Ok"
    /\ Len(links) = 3 /\ Cardinality(QuestionPositions(links)) = 2
    /\ conf.numbers = 3
    /\ Len(results) = 2

\* C2: in get_detailed_answer a failed fetch does not abort the batch: the
\* call returns Ok with one block per question link within the count, the
\* failed link's block being the placeholder.
C2_FetchFailureIsolated ==
    (pc = "done" /\ Detailed /\ ClientBuilt /\ AllLinksParse) =>
        /\ ret.kind = "Ok"
        /\ Len(results) = Len(QuestionsInFirstN)
        /\ \A k \in 1..Len(fetch_log) :
              ~fetch_log[k].ok =>
                  results[k] = <<"Can't get answer from ">> \o fetched[k]

\* C3: get_results_with_links_only terminates: once the loop has run as many
\* iterations as there are links, it has ended.
C3_LinksLoopEnds ==
    (pc = "links_loop" /\ iters >= Len(links)) => ~links_guard

\* the blocks the links-only claim describes: one per link among the first N
\* that contain "question", in list order
ExpectedTitle(link) ==
    LET path == UrlParse(link).path
        lastSlash == Max({0} \cup {i \in 1..Len(path) : path[i] = "/"})
    IN  [i \in 1..(Len(path) - lastSlash) |->
            IF path[lastSlash + i] = "-" THEN " " ELSE path[lastSlash + i]]
ExpectedLinkBlocks ==
    LET q == InOrder(QuestionPositions(links))
        n == MinOf(conf.numbers, Len(q))
    IN  [k \in 1..n |->
            <<"Title - ">> \o ExpectedTitle(links[q[k]]) \o <<"\n">> \o links[q[k]]]

\* C4: for every list and count, get_results_with_links_only returns the
\* blocks "Title - <title>\n<link>" of the first N question links, joined by
\* the divider; a link without "question" is skipped and uses up no slot.
C4_LinksOnlyOutput ==
    (conf.option = "Links" /\ AllLinksParse) =>
        /\ pc = "done" => ret = Ok(Join(ExpectedLinkBlocks, SPLITTER))
        /\ (pc = "links_loop" /\ iters >= Len(links)) => ~links_guard

\* C5: parse_answer's panic is never reached from get_answers: with option
\* Links nothing is fetched and parse_answer is not invoked; it is invoked
\* with OnlyCode or All only.
C5_ParseAnswerNeverPanics ==
    /\ ~(ret.kind = "Panic" /\ ret.where = "parse_answer")
    /\ \A k \in 1..Len(parsed) : parsed[k] \in {"OnlyCode", "All"}
    /\ conf.option = "Links" =>
          /\ fetched = <<>>
          /\ parsed = <<>>
          /\ pc \in {"start", "links_loop", "done"}

\* a Links call that returned two blocks
C5_Witness ==
    /\ conf.option = "Links"
    /\ pc = "done" /\ ret.kind = "Ok"
    /\ Len(results) = 2

\* C9: in get_detailed_answer, when every fetch succeeds, the output is one
\* block for each question link among the first min(N, len(links)) links,
\* in list order, joined by the divider; a link without "question" there
\* uses up a slot, and no link beyond those positions is fetched.
C9_DetailedOutput ==
    Detailed =>
        /\ Len(fetched) <= Len(QuestionsInFirstN)
        /\ \A k \in 1..Len(fetched) : fetched[k] = links[QuestionsInFirstN[k]]
        /\ (pc = "done" /\ AllFetchesOk /\ ClientBuilt) =>
              /\ ret.kind = "Ok"
              /\ ret.val = Join(results, SPLITTER)
              /\ Len(results) = Len(QuestionsInFirstN)
              /\ \A k \in 1..Len(results) :
                    LET link == links[QuestionsInFirstN[k]]
                        answer == parse_answer(fetch_log[k].page, conf.option,
                                               conf.colorize)
                    IN  results[k] =
                            IF answer.kind = "Some"
                            THEN <<"- Answer from ">> \o link \o <<"\n">> \o answer.val
                            ELSE <<"Can't get answer from ">> \o link

\* N = 2, a list of a non-question link and two question links: the first
\* link used a slot, the third was not fetched
C9_Witness ==
    /\ pc = "done" /\ ret.kind = "Ok" /\ conf.option = "All"
    /\ conf.numbers = 2
    /\ links = <<LinkTags, LinkQuestionC, LinkQuestionA>>
    /\ fetched = <<LinkQuestionC>>
    /\ Len(results) = 1

----------------------------------------------------------------------------
(* Question pages, built node by node, and parse_answer applied to them.   *)
(* A page starts as one of SeedPages and grows by fragments appended in    *)
(* document order: an element, an element with one text child, or a text.  *)

\* the orchestrator's variables, at rest while a function is looked at alone
OrchIdle ==
    /\ links = <<LinkQuestionA>>
    /\ conf = [option |-> "All", numbers |-> 1, colorize |-> FALSE]
    /\ results = <<>>
    /\ consumed = 0
    /\ count = 0
    /\ index = 0
    /\ iters = 0
    /\ ret = Running
    /\ fetched = <<>>
    /\ fetch_log = <<>>
    /\ parsed = <<>>

SeedPages ==
    { <<>>,
      << Element(0, "div", {"answer"}) >>,
      << Element(0, "div", {"answer"}), Element(1, "div", {"post-text"}) >>,
      << Element(0, "div", {"answer", "post-text"}) >>,
      << Element(0, "a", {"post-tag"}), TextNode(1, <<"rust">>),
         Element(0, "div", {"answer"}), Element(3, "div", {"post-text"}),
         TextNode(4, <<"\n">>),
         Element(4, "p", {}), TextNode(6, <<"t7">>) >> }

\* the elements a node appended to doc can be a child of: the last node and
\* its ancestors, text nodes excepted; 0 is the top
RECURSIVE OpenElements(_, _)
OpenElements(doc, j) ==
    IF j = 0 THEN {0}
    ELSE (IF doc[j].name = "" THEN {} ELSE {j}) \cup OpenElements(doc, doc[j].parent)

\* the text of the text node at index i: a word of its own, and for code two lines
WordAt(i) == "t" \o ToString(i)
Prose(i) == <<WordAt(i)>>
Code(i) == <<WordAt(i), "\n", "x">>

\* the fragments that can be appended to doc under parent
PageFragments(doc, parent) ==
    LET n == Len(doc)
    IN  { <<Element(parent, "div", {"answer"})>>,
          <<Element(parent, "div", {"post-text"})>>,
          <<TextNode(parent, Prose(n + 1))>>,
          <<Element(parent, "code", {})>> }
        \cup { <<Element(parent, "p", {}), TextNode(n + 1, Prose(n + 2))>>,
               <<Element(parent, "pre", {}), TextNode(n + 1, Code(n + 2))>>,
               <<Element(parent, "code", {}), TextNode(n + 1, Code(n + 2))>> }

ParseInit ==
    /\ OrchIdle
    /\ pc = "build"
    /\ page \in SeedPages
    /\ tags = <<>>
    /\ out = None

\* the page grows by one fragment
add_fragment ==
    /\ pc = "build"
    /\ count < MaxAdd
    /\ count' = count + 1
    /\ \E parent \in OpenElements(page, Len(page)) :
          \E frag \in PageFragments(page, parent) : page' = page \o frag
    /\ UNCHANGED <<links, conf, pc, results, consumed, index, iters, ret,
                   fetched, fetch_log, parsed, tags, out>>

\* get_detailed_answer, lines 43-48, on the page in hand: parse_answer under
\* some config, and the block pushed for its answer
parse_page ==
    /\ pc = "build"
    /\ \E option \in OutputOption, colorize \in BOOLEAN :
          LET answer == parse_answer(page, option, colorize)
          IN  /\ conf' = [option |-> option, numbers |-> 1, colorize |-> colorize]
              /\ parsed' = Append(parsed, option)
              /\ out' = answer
              /\ IF answer.kind = "Panic"
                 THEN ret' = Panicked("parse_answer") /\ results' = results
                 ELSE ret' = ret /\ results' = Append(results, AnswerBlock(links[1], answer))
    /\ pc' = "parsed"
    /\ UNCHANGED <<links, consumed, count, index, iters, fetched, fetch_log,
                   page, tags>>

ParseNext ==
    \/ add_fragment
    \/ parse_page

SpecParse == ParseInit /\ [][ParseNext]_vars

\* C7: on a page with no element of class "answer", parse_answer returns
\* None under every option (Links too) and either colorize setting, without
\* panicking, and get_detailed_answer's block for the link is the placeholder.
C7_NoAnswerIsNone ==
    (pc = "parsed" /\ \A j \in 1..Len(page) : "answer" \notin page[j].cls) =>
        /\ out.kind = "None"
        /\ ret.kind # "Panic"
        /\ results = << <<"Can't get answer from ">> \o links[1] >>

\* option Links, colorized, on a page with a code block and no answer
C7_Witness ==
    /\ pc = "parsed"
    /\ \A j \in 1..Len(page) : "answer" \notin page[j].cls
    /\ \E j \in 1..Len(page) : page[j].name = "pre"
    /\ conf.option = "Links" /\ conf.colorize
    /\ out.kind = "None"
    /\ Len(results) = 1

\* the first answer element, the first post-text element under it, and that
\* element's element children, in document order
FirstAnswer == Min({j \in 1..Len(page) : "answer" \in page[j].cls})
PostTexts == {j \in 1..Len(page) :
                 "post-text" \in page[j].cls /\ IsAncestor(page, FirstAnswer, j)}
ElementChildren(i) ==
    InOrder({j \in 1..Len(page) : page[j].parent = i /\ page[j].name # ""})
\* the segment of one child
Segment(j) ==
    LET shown == colorized_code(NodeText(page, j), QuestionTags(page))
    IN  IF page[j].name = "pre" THEN shown \o <<"\n">>
        ELSE IF page[j].name = "code" THEN shown
        ELSE NodeText(page, j) \o <<"\n\n">>
RECURSIVE Flatten(_)
Flatten(segments) ==
    IF segments = <<>> THEN <<>> ELSE segments[1] \o Flatten(Tail(segments))

\* C10: with colorize set, parse_answer_detailed returns the concatenation,
\* in child order, of one segment for each element child of the first
\* post-text element: highlighted text and "\n" for a pre, highlighted text
\* for a code, the text and "\n\n" for any other element; text nodes give nothing.
C10_DetailedSegments ==
    (/\ pc = "parsed" /\ conf.option = "All" /\ conf.colorize
     /\ \E j \in 1..Len(page) : "answer" \in page[j].cls
     /\ PostTexts # {}) =>
        LET kids == ElementChildren(Min(PostTexts))
        IN  /\ out.kind = "Some"
            /\ out.val = Flatten([k \in 1..Len(kids) |-> Segment(kids[k])])

\* a paragraph, a code block and a paragraph after a text node:
\* three segments, in that order
C10_Witness ==
    /\ pc = "parsed" /\ conf.option = "All" /\ conf.colorize
    /\ \E j \in 1..Len(page) : "answer" \in page[j].cls
    /\ PostTexts # {}
    /\ LET kids == ElementChildren(Min(PostTexts))
       IN  /\ Len(kids) = 3
           /\ page[kids[1]].name = "p" /\ page[kids[2]].name = "pre"
           /\ page[kids[3]].name = "p"
           /\ \A k \in 1..3 : NodeText(page, kids[k]) # <<>>
           /\ \E j \in 1..Len(page) :
                 page[j].parent = Min(PostTexts) /\ page[j].name = ""
           /\ out.val = Segment(kids[1]) \o Segment(kids[2]) \o Segment(kids[3])

----------------------------------------------------------------------------
(* Search-results pages, built node by node, and extract_links applied *)

\* "https://test_link1", "https://test_link2" of the tests
Href1 == <<"https://test_link1">>
Href2 == <<"https://test_link2">>

ResultNodes(parent) ==
    { Element(parent, "div", {"g"}),
      Element(parent, "div", {"r"}),
      Anchor(parent, {}, <<>>),
      Anchor(parent, {}, <<Href1>>),
      Anchor(parent, {}, <<Href2>>),
      Anchor(parent, {"r"}, <<Href1>>) }

LinksInit ==
    /\ OrchIdle
    /\ pc = "build"
    /\ page = <<>>
    /\ tags = <<>>
    /\ out = None

\* the page grows by one node
add_result_node ==
    /\ pc = "build"
    /\ Len(page) < MaxLinkNodes
    /\ \E parent \in OpenElements(page, Len(page)) :
          \E node \in ResultNodes(parent) : page' = Append(page, node)
    /\ UNCHANGED <<links, conf, pc, results, consumed, count, index, iters, ret,
                   fetched, fetch_log, parsed, tags, out>>

\* engine/google.rs, extract_links, on the page in hand
extract_links_call ==
    /\ pc = "build"
    /\ out' = extract_links(page)
    /\ pc' = "extracted"
    /\ UNCHANGED <<links, conf, results, consumed, count, index, iters, ret,
                   fetched, fetch_log, parsed, page, tags>>

LinksNext ==
    \/ add_result_node
    \/ extract_links_call

SpecLinks == LinksInit /\ [][LinksNext]_vars

\* the anchors with an href that have an ancestor of class "r"
ResultLinks ==
    {j \in 1..Len(page) :
        /\ page[j].name = "a"
        /\ page[j].href # <<>>
        /\ \E a \in 1..Len(page) : "r" \in page[a].cls /\ IsAncestor(page, a, j)}

\* C6: extract_links returns None exactly when the page has no result link,
\* and otherwise Some of the hrefs in document order, none dropped and
\* duplicates kept; never Some of an empty list.
C6_ExtractLinks ==
    pc = "extracted" =>
        /\ out.kind = "None" <=> ResultLinks = {}
        /\ out.kind = "Some" =>
              /\ Len(out.val) = Cardinality(ResultLinks)
              /\ Len(out.val) > 0
              /\ \A j \in ResultLinks :
                    out.val[Cardinality({i \in ResultLinks : i <= j})] = page[j].href[1]

\* two result links with the same href: both are returned
C6_Witness ==
    /\ pc = "extracted"
    /\ out.kind = "Some"
    /\ Len(out.val) = 2
    /\ out.val[1] = out.val[2]

----------------------------------------------------------------------------
(* guess_syntax applied to tag lists *)

TagPool == { <<"python">>, <<"rs">>, <<"Rust">>, <<"txt">>, <<"tokio">> }

SyntaxInit ==
    /\ OrchIdle
    /\ pc = "call"
    /\ page = <<>>
    /\ tags \in SeqsUpTo(TagPool, MaxTags)
    /\ out = None

\* answer.rs, guess_syntax, on the tags in hand
guess_syntax_call ==
    /\ pc = "call"
    /\ out' = Some(guess_syntax(tags))
    /\ pc' = "returned"
    /\ UNCHANGED <<links, conf, results, consumed, count, index, iters, ret,
                   fetched, fetch_log, parsed, page, tags>>

SyntaxNext == guess_syntax_call

SpecSyntax == SyntaxInit /\ [][SyntaxNext]_vars

\* the syntaxes a tag resolves to: by file extension, or by name in any case
Resolves(tag, syntax) ==
    \E k \in 1..Len(SyntaxSet) :
        /\ SyntaxSet[k].name = syntax
        /\ Len(tag) = 1
        /\ \/ tag[1] \in SyntaxSet[k].exts
           \/ AsciiLower(tag[1]) = AsciiLower(SyntaxSet[k].name)
Known(tag) == \E k \in 1..Len(SyntaxSet) : Resolves(tag, SyntaxSet[k].name)

\* C8: guess_syntax selects the syntax of the first tag, in list order, that
\* resolves, whatever later tags resolve to; plain text when none resolves,
\* the empty list included.
C8_FirstTagWins ==
    pc = "returned" =>
        /\ out.kind = "Some"
        /\ \A i \in 1..Len(tags) :
              (Known(tags[i]) /\ \A j \in 1..(i - 1) : ~Known(tags[j]))
                  => Resolves(tags[i], out.val)
        /\ (\A i \in 1..Len(tags) : ~Known(tags[i])) => out.val = PlainText

\* an unknown tag, then python, then a tag for Rust: Python is selected
C8_Witness ==
    /\ pc = "returned"
    /\ tags = << <<"tokio">>, <<"python">>, <<"rs">> >>
    /\ out = Some("Python")

====
